---- MODULE Spec2Model ----
(***************************************************************************)
(* Books API gateway (server.js): the JWT authentication middleware        *)
(* jwtAuth, the role middleware requireRole, the nine protected routes    *)
(* and their handlers, run on Node's single JavaScript thread.            *)
(*                                                                         *)
(* A request is dispatched through the middleware stack of its route.     *)
(* The synchronous part of a request (jwtAuth, requireRole, the handler   *)
(* up to its first await) runs to completion; other requests interleave   *)
(* only while a handler is suspended on the persistence call.             *)
(***************************************************************************)
EXTENDS Integers, Sequences, FiniteSets, TLC

(* ------------------------------ bounds -------------------------------- *)
\* the wall clock runs from 0 to MaxClock
MaxClock == 1
\* the books table holds ids 1..MaxBooks
MaxBooks == 1

(* ------------------------------- state -------------------------------- *)
VARIABLES
  JWT_SECRET,   \* the secret jwtAuth verifies against
  now,          \* the wall clock
  reqs,         \* the requests, by slot
  books         \* the books table behind supabase

vars == <<JWT_SECRET, now, reqs, books>>

(* --------------------------- JavaScript values ------------------------ *)
\* A JavaScript value of the kinds that occur in claims and bodies.
JsUndef == [t |-> "undefined", n |-> 0, s |-> ""]
JsNum(k) == [t |-> "number", n |-> k, s |-> ""]
JsStr(str) == [t |-> "string", n |-> 0, s |-> str]

\* String, were the claim taken to be a string already
String_assumesString(v) == v.s

\* String(v): the global String conversion
String(v) ==
  CASE v.t = "number" -> ToString(v.n)
    [] v.t = "string" -> v.s
    [] OTHER -> "undefined"

\* !v : JavaScript falsiness
Falsy(v) ==
  \/ v.t = "undefined"
  \/ v.t = "number" /\ v.n = 0
  \/ v.t = "string" /\ v.s = ""

(* ------------------------------ strings ------------------------------- *)
\* A header value is a sequence of pieces; a piece is one character, or an
\* opaque run of non-blank characters (a compact JWT, "abc123", "x").
prefix == <<"B", "e", "a", "r", "e", "r", " ">>

\* the letters of the scheme name, folded to lower case
lower(c) == IF c = "B" THEN "b" ELSE c

\* startsWith, were the scheme compared without regard to case
startsWith_anyCase(str, p) ==
  /\ Len(str) >= Len(p)
  /\ \A i \in 1..Len(p) : lower(str[i]) = lower(p[i])

\* String.prototype.startsWith
startsWith(str, p) ==
  /\ Len(str) >= Len(p)
  /\ SubSeq(str, 1, Len(p)) = p

\* String.prototype.slice(from)
slice(str, from) == SubSeq(str, from + 1, Len(str))

RECURSIVE trimStart(_)
trimStart(str) ==
  IF str # <<>> /\ Head(str) = " " THEN trimStart(Tail(str)) ELSE str

RECURSIVE trimEnd(_)
trimEnd(str) ==
  IF str # <<>> /\ str[Len(str)] = " "
    THEN trimEnd(SubSeq(str, 1, Len(str) - 1))
    ELSE str

\* String.prototype.trim
trim(str) == trimEnd(trimStart(str))

(* ------------------------------- tokens ------------------------------- *)
\* the fallback of server.js line 9
DefaultSecret == "your-secret-key-change-this"

\* process.env of a deployment: JWT_SECRET is "" when it is not set
Envs == {[JWT_SECRET |-> ""], [JWT_SECRET |-> "env-secret"]}

\* JWT_SECRET = process.env.JWT_SECRET || 'your-secret-key-change-this'
SecretOf(env) == IF env.JWT_SECRET = "" THEN DefaultSecret ELSE env.JWT_SECRET

\* The signed tokens a caller may present: the key that signed it and the
\* payload it carries (a missing claim reads as undefined).
Jwts ==
  [ tokMember    |-> [key |-> DefaultSecret,
                      userId |-> JsNum(7), role |-> JsStr("member"),
                      exp |-> JsUndef],
    tokLibrarian |-> [key |-> DefaultSecret,
                      userId |-> JsStr("u1"), role |-> JsStr("librarian"),
                      exp |-> JsUndef],
    tokForged    |-> [key |-> "env-secret",
                      userId |-> JsNum(12), role |-> JsStr("librarian"),
                      exp |-> JsUndef],
    tokExpiring  |-> [key |-> DefaultSecret,
                      userId |-> JsNum(7), role |-> JsStr("librarian"),
                      exp |-> JsNum(1)],
    tokAdmin     |-> [key |-> DefaultSecret,
                      userId |-> JsNum(3), role |-> JsStr("admin"),
                      exp |-> JsUndef],
    tokNoUserId  |-> [key |-> DefaultSecret,
                      userId |-> JsUndef, role |-> JsStr("librarian"),
                      exp |-> JsUndef],
    tokNoRole    |-> [key |-> DefaultSecret,
                      userId |-> JsNum(7), role |-> JsUndef,
                      exp |-> JsUndef] ]

NoPayload == [userId |-> JsUndef, role |-> JsUndef]

\* jwt.decode in place of jwt.verify: the payload is read, neither the
\* signature nor the expiry is checked
jwt_verify_decodeOnly(token, secretKey, clock) ==
  IF ~(Len(token) = 1 /\ token[1] \in DOMAIN Jwts)
    THEN [thrown |-> TRUE, cause |-> "JsonWebTokenError: jwt malformed",
          decoded |-> NoPayload]
    ELSE [thrown |-> FALSE, cause |-> "",
          decoded |-> [userId |-> Jwts[token[1]].userId,
                       role |-> Jwts[token[1]].role]]

\* jwt.verify(token, secret) at time clock: the payload, or a thrown error
jwt_verify(token, secretKey, clock) ==
  IF ~(Len(token) = 1 /\ token[1] \in DOMAIN Jwts)
    THEN [thrown |-> TRUE, cause |-> "JsonWebTokenError: jwt malformed",
          decoded |-> NoPayload]
  ELSE LET j == Jwts[token[1]] IN
    IF j.key # secretKey
      THEN [thrown |-> TRUE, cause |-> "JsonWebTokenError: invalid signature",
            decoded |-> NoPayload]
    ELSE IF j.exp.t = "number" /\ clock >= j.exp.n
      THEN [thrown |-> TRUE, cause |-> "TokenExpiredError: jwt expired",
            decoded |-> NoPayload]
    ELSE [thrown |-> FALSE, cause |-> "",
          decoded |-> [userId |-> j.userId, role |-> j.role]]

(* ----------------------------- responses ------------------------------ *)
\* res.status(code).json({error, message}) / res.json({success, message})
Response(code, err, msg) == [status |-> code, error |-> err, message |-> msg]

MsgNoBearer ==
  "Token Bearer tidak ditemukan. Tambahkan Authorization: Bearer <token>."
MsgInvalid == "Token tidak valid atau sudah kedaluwarsa."
MsgDenied == "Anda tidak memiliki izin untuk mengakses endpoint ini."

(* ----------------------------- middleware ----------------------------- *)
\* next(): hand the request to the following entry of the route's stack
next(req) == [req EXCEPT !.idx = @ + 1]

\* res.json(...) without next(): the response is sent, the chain stops
respond(req, r) == [req EXCEPT !.res = Append(@, r), !.state = "done"]

\* jwtAuth, were the caught error's message sent back to the caller
jwtAuth_leaksCause(req, secretKey, clock) ==
  LET header == IF req.headers.present /\ req.headers.authorization # <<>>
                  THEN req.headers.authorization ELSE <<>>
      rq == [req EXCEPT !.trace = Append(@, "jwtAuth")]
  IN
  IF ~startsWith(header, prefix)
    THEN respond(rq, Response(401, "TidakTerautentikasi", MsgNoBearer))
  ELSE LET token == trim(slice(header, Len(prefix)))
           v == jwt_verify(token, secretKey, clock)
       IN
    IF v.thrown
      THEN respond(rq, Response(401, "TidakTerautentikasi", v.cause))
      ELSE next([rq EXCEPT !.user =
                   <<[userId |-> String(v.decoded.userId),
                      role |-> v.decoded.role]>>])

\* jwtAuth, were a token good for one use: a token that another request has
\* already been authenticated with is refused
jwtAuth_singleUse(req, secretKey, clock) ==
  LET header == IF req.headers.present /\ req.headers.authorization # <<>>
                  THEN req.headers.authorization ELSE <<>>
      rq == [req EXCEPT !.trace = Append(@, "jwtAuth")]
  IN
  IF ~startsWith(header, prefix)
    THEN respond(rq, Response(401, "TidakTerautentikasi", MsgNoBearer))
  ELSE LET token == trim(slice(header, Len(prefix)))
           v == jwt_verify(token, secretKey, clock)
           used == \E q \in DOMAIN reqs :
                     reqs[q].user # <<>> /\ reqs[q].headers = req.headers
       IN
    IF v.thrown \/ used
      THEN respond(rq, Response(401, "TidakTerautentikasi", MsgInvalid))
      ELSE next([rq EXCEPT !.user =
                   <<[userId |-> String(v.decoded.userId),
                      role |-> v.decoded.role]>>])

\* function jwtAuth(req, res, next)
jwtAuth(req, secretKey, clock) ==
  LET header == IF req.headers.present /\ req.headers.authorization # <<>>
                  THEN req.headers.authorization ELSE <<>>
      rq == [req EXCEPT !.trace = Append(@, "jwtAuth")]
  IN
  IF ~startsWith(header, prefix)
    THEN respond(rq, Response(401, "TidakTerautentikasi", MsgNoBearer))
  ELSE LET token == trim(slice(header, Len(prefix)))
           v == jwt_verify(token, secretKey, clock)
       IN
    IF v.thrown
      THEN respond(rq, Response(401, "TidakTerautentikasi", MsgInvalid))
      ELSE next([rq EXCEPT !.user =
                   <<[userId |-> String(v.decoded.userId),
                      role |-> v.decoded.role]>>])

\* includes, were roles ranked: whoever holds a role above those listed
\* passes (admin over librarian over member)
includes_ranked(arr, v) ==
  \/ \E i \in 1..Len(arr) : arr[i] = v
  \/ v = JsStr("admin")
  \/ v = JsStr("librarian") /\ arr # <<>>

\* Array.prototype.includes
includes(arr, v) == \E i \in 1..Len(arr) : arr[i] = v

\* requireRole, were the return before res.status(403) missing: the 403 is
\* sent and next() is called all the same
requireRole_fallsThrough(allowedRoles, req) ==
  LET rq == [req EXCEPT !.trace = Append(@, "requireRole")] IN
  IF req.user = <<>> \/ ~includes(allowedRoles, req.user[1].role)
    THEN next([rq EXCEPT !.res =
                 Append(@, Response(403, "AksesDitolak", MsgDenied))])
    ELSE next(rq)

\* requireRole, were the role looked at only when there is an identity: a
\* request without req.user is let through
requireRole_failsOpen(allowedRoles, req) ==
  LET rq == [req EXCEPT !.trace = Append(@, "requireRole")] IN
  IF req.user # <<>> /\ ~includes(allowedRoles, req.user[1].role)
    THEN respond(rq, Response(403, "AksesDitolak", MsgDenied))
    ELSE next(rq)

\* requireRole, were the refusal to name the role that was presented
requireRole_namesRole(allowedRoles, req) ==
  LET rq == [req EXCEPT !.trace = Append(@, "requireRole")] IN
  IF req.user = <<>> \/ ~includes(allowedRoles, req.user[1].role)
    THEN respond(rq, Response(403, "AksesDitolak",
                              IF req.user = <<>> THEN MsgDenied
                              ELSE String(req.user[1].role)))
    ELSE next(rq)

\* the middleware returned by requireRole(...allowedRoles)
requireRole(allowedRoles, req) ==
  LET rq == [req EXCEPT !.trace = Append(@, "requireRole")] IN
  IF req.user = <<>> \/ ~includes(allowedRoles, req.user[1].role)
    THEN respond(rq, Response(403, "AksesDitolak", MsgDenied))
    ELSE next(rq)

(* ------------------------------- routes ------------------------------- *)
\* a route, were requireRole listed ahead of jwtAuth
Wire_roleFirst(allowedRoles, handlerName) ==
  << [mw |-> "requireRole", roles |-> allowedRoles, handler |-> ""],
     [mw |-> "jwtAuth", roles |-> <<>>, handler |-> ""],
     [mw |-> "handler", roles |-> <<>>, handler |-> handlerName] >>

\* app.METHOD(path, jwtAuth, requireRole(...allowedRoles), handler):
\* the middleware stack Express runs, in order, for a matching request
Wire(allowedRoles, handlerName) ==
  << [mw |-> "jwtAuth", roles |-> <<>>, handler |-> ""],
     [mw |-> "requireRole", roles |-> allowedRoles, handler |-> ""],
     [mw |-> "handler", roles |-> <<>>, handler |-> handlerName] >>

Member == JsStr("member")
Librarian == JsStr("librarian")

\* the routes, were POST /api/books wired like the read routes
Routes_openCreate ==
  [ getBooks    |-> [method |-> "GET", path |-> "/api/books",
                     stack |-> Wire(<<Member, Librarian>>, "list")],
    getByGenres |-> [method |-> "GET", path |-> "/api/books/genres/:genres",
                     stack |-> Wire(<<Member, Librarian>>, "list")],
    getByYear   |-> [method |-> "GET", path |-> "/api/books/year/:year",
                     stack |-> Wire(<<Member, Librarian>>, "list")],
    getByAuthor |-> [method |-> "GET", path |-> "/api/books/author/:author",
                     stack |-> Wire(<<Member, Librarian>>, "list")],
    getBook     |-> [method |-> "GET", path |-> "/api/books/:id",
                     stack |-> Wire(<<Member, Librarian>>, "get")],
    postBook    |-> [method |-> "POST", path |-> "/api/books",
                     stack |-> Wire(<<Member, Librarian>>, "create")],
    putBook     |-> [method |-> "PUT", path |-> "/api/books/:id",
                     stack |-> Wire(<<Librarian>>, "update")],
    deleteBook  |-> [method |-> "DELETE", path |-> "/api/books/:id",
                     stack |-> Wire(<<Librarian>>, "delete")],
    getStats    |-> [method |-> "GET", path |-> "/api/stats",
                     stack |-> Wire(<<Member, Librarian>>, "list")] ]

\* the nine protected routes of server.js
Routes ==
  [ getBooks    |-> [method |-> "GET", path |-> "/api/books",
                     stack |-> Wire(<<Member, Librarian>>, "list")],
    getByGenres |-> [method |-> "GET", path |-> "/api/books/genres/:genres",
                     stack |-> Wire(<<Member, Librarian>>, "list")],
    getByYear   |-> [method |-> "GET", path |-> "/api/books/year/:year",
                     stack |-> Wire(<<Member, Librarian>>, "list")],
    getByAuthor |-> [method |-> "GET", path |-> "/api/books/author/:author",
                     stack |-> Wire(<<Member, Librarian>>, "list")],
    getBook     |-> [method |-> "GET", path |-> "/api/books/:id",
                     stack |-> Wire(<<Member, Librarian>>, "get")],
    postBook    |-> [method |-> "POST", path |-> "/api/books",
                     stack |-> Wire(<<Librarian>>, "create")],
    putBook     |-> [method |-> "PUT", path |-> "/api/books/:id",
                     stack |-> Wire(<<Librarian>>, "update")],
    deleteBook  |-> [method |-> "DELETE", path |-> "/api/books/:id",
                     stack |-> Wire(<<Librarian>>, "delete")],
    getStats    |-> [method |-> "GET", path |-> "/api/stats",
                     stack |-> Wire(<<Member, Librarian>>, "list")] ]

RouteNames == DOMAIN Routes

(* ------------------------------ handlers ------------------------------ *)
BookIds == 1..MaxBooks

\* req.body of a POST or PUT
NoBody == [title |-> JsUndef, genres |-> JsUndef, authors |-> JsUndef,
           year |-> JsUndef]
BodyB == [title |-> JsStr("B"), genres |-> JsStr("Fiction"),
          authors |-> JsStr("F. Scott Fitzgerald"), year |-> JsNum(1925)]
BodyYearZero == [BodyB EXCEPT !.year = JsNum(0)]
Bodies == {BodyB, BodyYearZero}

MsgFields == "All fields are required: title, genres, authors, year"

\* the handler up to its first await, were POST and PUT to pass the body on
\* without the field check
handlerStart_noFieldCheck(kind, req) ==
  [req EXCEPT !.trace = Append(@, "handler"), !.seen = req.user,
              !.state = "awaiting"]

\* the handler up to its first await: the field check of POST and PUT
\* answers 400 at once, every other path suspends on the supabase call
handlerStart(kind, req) ==
  LET rq == [req EXCEPT !.trace = Append(@, "handler"),
                        !.seen = req.user]
      b == req.body
  IN
  IF /\ kind \in {"create", "update"}
     /\ (Falsy(b.title) \/ Falsy(b.genres) \/ Falsy(b.authors) \/ Falsy(b.year))
    THEN respond(rq, Response(400, MsgFields, ""))
    ELSE [rq EXCEPT !.state = "awaiting"]

\* the supabase call of a handler against table bks: the table afterwards
\* and the {data, error} it resolves to; fails is a persistence failure
supabase(kind, req, bks, fails) ==
  LET hit == {b \in bks : b.id = req.params.id}
      free == {i \in BookIds : \A b \in bks : b.id # i}
  IN
  IF fails THEN [table |-> bks, error |-> "fetch failed"]
  ELSE CASE kind = "list" -> [table |-> bks, error |-> ""]
    [] kind = "get" ->
         [table |-> bks, error |-> IF hit = {} THEN "PGRST116" ELSE ""]
    [] kind = "create" ->
         IF free = {} THEN [table |-> bks, error |-> "insert failed"]
         ELSE [table |-> bks \cup
                 {[id |-> CHOOSE i \in free : \A k \in free : i <= k,
                   title |-> req.body.title.s]},
               error |-> ""]
    [] kind = "update" ->
         IF hit = {} THEN [table |-> bks, error |-> "PGRST116"]
         ELSE [table |-> (bks \ hit) \cup
                 {[id |-> req.params.id, title |-> req.body.title.s]},
               error |-> ""]
    [] kind = "delete" ->
         IF hit = {} THEN [table |-> bks, error |-> "PGRST116"]
         ELSE [table |-> bks \ hit, error |-> ""]

\* the handler after its await, were the catch clause to log the error and
\* send nothing
handlerResume_silentCatch(kind, req, error) ==
  IF error = ""
    THEN CASE kind = "create" ->
                respond(req, Response(201, "", "Book created successfully"))
           [] kind = "update" ->
                respond(req, Response(200, "", "Book updated successfully"))
           [] kind = "delete" ->
                respond(req, Response(200, "", "Book deleted successfully"))
           [] OTHER -> respond(req, Response(200, "", ""))
  ELSE IF error = "PGRST116" /\ kind \in {"get", "update", "delete"}
    THEN respond(req, Response(404, "Book not found", ""))
    ELSE [req EXCEPT !.state = "done"]

\* the handler after its await: the response for the resolved {data, error}
handlerResume(kind, req, error) ==
  IF error = ""
    THEN CASE kind = "create" ->
                respond(req, Response(201, "", "Book created successfully"))
           [] kind = "update" ->
                respond(req, Response(200, "", "Book updated successfully"))
           [] kind = "delete" ->
                respond(req, Response(200, "", "Book deleted successfully"))
           [] OTHER -> respond(req, Response(200, "", ""))
  ELSE IF error = "PGRST116" /\ kind \in {"get", "update", "delete"}
    THEN respond(req, Response(404, "Book not found", ""))
    ELSE respond(req, Response(500, error, ""))

(* ------------------------------ requests ------------------------------ *)
\* Two requests: one may be suspended on supabase while the other runs,
\* and every statement about a pair of requests has its pair.
Slots == {1, 2}

\* the Authorization headers a caller may send
NoHeader == [present |-> FALSE, authorization |-> <<>>]
HeaderOf(str) == [present |-> TRUE, authorization |-> str]
Headers ==
  { NoHeader,
    HeaderOf(<<"B", "a", "s", "i", "c", " ", "abc123">>),
    HeaderOf(<<"b", "e", "a", "r", "e", "r", " ", "tokLibrarian">>),
    HeaderOf(prefix \o <<" ", "tokLibrarian", " ">>),
    HeaderOf(prefix \o <<"x">>) }
  \cup { HeaderOf(prefix \o <<t>>) : t \in DOMAIN Jwts \ {"tokLibrarian"} }

\* a slot no request has used yet
Fresh == [state |-> "idle", route |-> "getBooks", headers |-> NoHeader,
          params |-> [id |-> 0], body |-> NoBody, user |-> <<>>,
          seen |-> <<>>, idx |-> 0, trace |-> <<>>, res |-> <<>>]

\* the JavaScript thread is free: no request is in its synchronous part
ThreadFree == \A r \in Slots : reqs[r].state # "running"

\* the stack entry request r stands at
Entry(r) == Routes[reqs[r].route].stack[reqs[r].idx]

Init ==
  /\ \E env \in Envs : JWT_SECRET = SecretOf(env)
  /\ now = 0
  /\ reqs = [r \in Slots |-> Fresh]
  /\ books \in {{}, {[id |-> 1, title |-> "A"]}}

\* a request arrives and Express matches its route
Receive(r) ==
  /\ ThreadFree
  /\ reqs[r].state = "idle"
  /\ \A q \in Slots : q < r => reqs[q].state # "idle"
  /\ \E rt \in RouteNames, h \in Headers :
       \E i \in IF Routes[rt].stack[3].handler \in {"get", "update", "delete"}
                  THEN BookIds ELSE {0},
          b \in IF Routes[rt].stack[3].handler \in {"create", "update"}
                  THEN Bodies ELSE {NoBody} :
         reqs' = [reqs EXCEPT ![r] =
                    [Fresh EXCEPT !.state = "running", !.route = rt,
                                  !.headers = h, !.params = [id |-> i],
                                  !.body = b, !.idx = 1]]
  /\ UNCHANGED <<JWT_SECRET, now, books>>

\* jwtAuth, were the identity kept in one module-level variable that every
\* request in flight reads: authenticating r replaces the identity of the
\* requests already authenticated
JwtAuth_sharedUser(r) ==
  /\ reqs[r].state = "running"
  /\ Entry(r).mw = "jwtAuth"
  /\ LET mine == jwtAuth(reqs[r], JWT_SECRET, now) IN
       reqs' = [q \in Slots |->
                  IF q = r THEN mine
                  ELSE IF mine.user # <<>> /\ reqs[q].user # <<>>
                         /\ reqs[q].state # "done"
                    THEN [reqs[q] EXCEPT !.user = mine.user]
                    ELSE reqs[q]]
  /\ UNCHANGED <<JWT_SECRET, now, books>>

\* Express runs jwtAuth for request r
JwtAuth(r) ==
  /\ reqs[r].state = "running"
  /\ Entry(r).mw = "jwtAuth"
  /\ reqs' = [reqs EXCEPT ![r] = jwtAuth(reqs[r], JWT_SECRET, now)]
  /\ UNCHANGED <<JWT_SECRET, now, books>>

\* Express runs the requireRole middleware of the route for request r
RequireRole(r) ==
  /\ reqs[r].state = "running"
  /\ Entry(r).mw = "requireRole"
  /\ reqs' = [reqs EXCEPT ![r] = requireRole(Entry(r).roles, reqs[r])]
  /\ UNCHANGED <<JWT_SECRET, now, books>>

\* Express runs the route handler for request r, up to its await
HandlerStart(r) ==
  /\ reqs[r].state = "running"
  /\ Entry(r).mw = "handler"
  /\ reqs' = [reqs EXCEPT ![r] = handlerStart(Entry(r).handler, reqs[r])]
  /\ UNCHANGED <<JWT_SECRET, now, books>>

\* the supabase call of request r resolves and its handler continues
HandlerResume(r) ==
  /\ ThreadFree
  /\ reqs[r].state = "awaiting"
  /\ \E fails \in BOOLEAN :
       LET out == supabase(Entry(r).handler, reqs[r], books, fails) IN
         /\ books' = out.table
         /\ reqs' = [reqs EXCEPT ![r] =
                       handlerResume(Entry(r).handler, reqs[r], out.error)]
  /\ UNCHANGED <<JWT_SECRET, now>>

\* time passes
Tick ==
  /\ now < MaxClock
  /\ now' = now + 1
  /\ UNCHANGED <<JWT_SECRET, reqs, books>>

Next ==
  \/ \E r \in Slots : Receive(r)
  \/ \E r \in Slots : JwtAuth(r)
  \/ \E r \in Slots : RequireRole(r)
  \/ \E r \in Slots : HandlerStart(r)
  \/ \E r \in Slots : HandlerResume(r)
  \/ Tick

Spec == Init /\ [][Next]_vars

\* requireRole on its own: a request reaches the requireRole middleware of
\* a route without jwtAuth having run for it, so that req.user is not set
ReceiveSkipping(r) ==
  /\ ThreadFree
  /\ reqs[r].state = "idle"
  /\ \A q \in Slots : q < r => reqs[q].state # "idle"
  /\ \E rt \in RouteNames, h \in Headers :
       \E i \in IF Routes[rt].stack[3].handler \in {"get", "update", "delete"}
                  THEN BookIds ELSE {0},
          b \in IF Routes[rt].stack[3].handler \in {"create", "update"}
                  THEN Bodies ELSE {NoBody} :
         reqs' = [reqs EXCEPT ![r] =
                    [Fresh EXCEPT !.state = "running", !.route = rt,
                                  !.headers = h, !.params = [id |-> i],
                                  !.body = b, !.idx = 2]]
  /\ UNCHANGED <<JWT_SECRET, now, books>>

SkipNext ==
  \/ \E r \in Slots : ReceiveSkipping(r)
  \/ \E r \in Slots : RequireRole(r)

SkipSpec == Init /\ [][SkipNext]_vars

(* ------------------------- reading a request -------------------------- *)
\* middleware m has run for the request in slot r
Ran(r, m) == \E i \in 1..Len(reqs[r].trace) : reqs[r].trace[i] = m

\* a response with status code was sent for the request in slot r
Answered(r, code) == \E i \in 1..Len(reqs[r].res) : reqs[r].res[i].status = code

\* the request carries an Authorization header that begins "Bearer "
BearerShape(rq) ==
  LET a == rq.headers.authorization IN
  /\ rq.headers.present
  /\ Len(a) >= 7
  /\ a[1] = "B" /\ a[2] = "e" /\ a[3] = "a" /\ a[4] = "r"
  /\ a[5] = "e" /\ a[6] = "r" /\ a[7] = " "

\* token t is the credential written in the request's header
Presents(rq, t) ==
  /\ rq.headers.present
  /\ \E i \in 1..Len(rq.headers.authorization) :
       rq.headers.authorization[i] = t

\* the request was turned away by jwtAuth: one 401 "TidakTerautentikasi",
\* no identity, nothing after jwtAuth
Unauthenticated(rq) ==
  /\ rq.state = "done"
  /\ Len(rq.res) = 1
  /\ rq.res[1].status = 401
  /\ rq.res[1].error = "TidakTerautentikasi"
  /\ rq.user = <<>>
  /\ rq.trace = <<"jwtAuth">>

(* ------------------------------- claims ------------------------------- *)
\* C1: a request answered 401 by jwtAuth or 403 by requireRole never has its
\* route handler executed, in any state before or after the answer.
C1_RejectedNeverHandled ==
  \A r \in Slots :
    (Answered(r, 401) \/ Answered(r, 403)) =>
      /\ ~Ran(r, "handler")
      /\ reqs[r].seen = <<>>
      /\ reqs[r].state = "done"

\* one request was answered 401 and the other 403 while neither was handled
C1_Witness ==
  \E r, q \in Slots :
    /\ Answered(r, 401) /\ Answered(q, 403)
    /\ reqs[r].route = "postBook" /\ reqs[q].route = "deleteBook"

\* C2: the stages of a request run in the order jwtAuth, requireRole,
\* handler, and requireRole runs only for a request to which jwtAuth has
\* attached the identity of a token it verified.
C2_AuthBeforeRole ==
  \A r \in Slots :
    /\ \E k \in 0..3 :
         reqs[r].trace = SubSeq(<<"jwtAuth", "requireRole", "handler">>, 1, k)
    /\ Ran(r, "requireRole") =>
         /\ Len(reqs[r].user) = 1
         /\ \E t \in DOMAIN Jwts :
              /\ Presents(reqs[r], t)
              /\ Jwts[t].key = JWT_SECRET
              /\ reqs[r].user[1].role = Jwts[t].role

\* a request went through all three stages
C2_Witness ==
  \E r \in Slots :
    /\ reqs[r].trace = <<"jwtAuth", "requireRole", "handler">>
    /\ reqs[r].user # <<>>

\* C3: a request without an Authorization header, or whose header does not
\* begin with exactly "Bearer ", is answered 401 "TidakTerautentikasi" by
\* jwtAuth, gets no identity and is not passed on.
C3_NoBearerIs401 ==
  \A r \in Slots :
    (Ran(r, "jwtAuth") /\ ~BearerShape(reqs[r])) => Unauthenticated(reqs[r])

\* a request without header and one with "bearer <valid token>" were refused
C3_Witness ==
  \E r, q \in Slots :
    /\ ~reqs[r].headers.present /\ Unauthenticated(reqs[r])
    /\ reqs[q].headers.present /\ reqs[q].headers.authorization[1] = "b"
    /\ Presents(reqs[q], "tokLibrarian") /\ Unauthenticated(reqs[q])

\* jwtAuth runs for the request in slot r in this step
VerifiedNow(r) ==
  /\ reqs[r].state = "running"
  /\ reqs[r].trace = <<>>
  /\ reqs'[r].trace = <<"jwtAuth">>

\* C4: a token signed with another secret than JWT_SECRET, or expired when
\* it is verified, is answered 401 "TidakTerautentikasi" whatever userId and
\* role it claims, and no identity is attached.
C4_BadTokenIs401 ==
  [][ \A r \in Slots : \A t \in DOMAIN Jwts :
        ( /\ VerifiedNow(r)
          /\ BearerShape(reqs[r])
          /\ Presents(reqs[r], t)
          /\ \/ Jwts[t].key # JWT_SECRET
             \/ Jwts[t].exp.t = "number" /\ Jwts[t].exp.n <= now )
        => Unauthenticated(reqs'[r]) ]_vars

\* a librarian token under a foreign secret and an expired librarian token
\* were both refused
C4_Witness ==
  \E r, q \in Slots : \E t \in DOMAIN Jwts :
    /\ Presents(reqs[r], t) /\ BearerShape(reqs[r])
    /\ Jwts[t].key # JWT_SECRET /\ Jwts[t].role = Librarian
    /\ Unauthenticated(reqs[r])
    /\ Presents(reqs[q], "tokExpiring") /\ BearerShape(reqs[q])
    /\ Jwts["tokExpiring"].key = JWT_SECRET
    /\ Unauthenticated(reqs[q])

\* the subject id each token stands for, written out: the userId claim as a
\* string ("undefined" when the token carries none)
SubjectOf ==
  [ tokMember |-> "7", tokLibrarian |-> "u1", tokForged |-> "12",
    tokExpiring |-> "7", tokAdmin |-> "3", tokNoUserId |-> "undefined",
    tokNoRole |-> "7" ]

\* C5: an unexpired token signed with JWT_SECRET passes jwtAuth, which
\* attaches the identity {userId: String(userId claim), role: role claim};
\* the handler, when it runs, sees that identity.
C5_ValidTokenIdentity ==
  [][ \A r \in Slots : \A t \in DOMAIN Jwts :
        /\ ( /\ VerifiedNow(r)
             /\ BearerShape(reqs[r])
             /\ Presents(reqs[r], t)
             /\ Jwts[t].key = JWT_SECRET
             /\ ~(Jwts[t].exp.t = "number" /\ Jwts[t].exp.n <= now) )
           => /\ reqs'[r].user =
                   <<[userId |-> SubjectOf[t], role |-> Jwts[t].role]>>
              /\ reqs'[r].state = "running"
              /\ reqs'[r].idx = 2
              /\ reqs'[r].res = <<>>
        /\ (Ran(r, "handler") /\ Presents(reqs[r], t))
           => /\ reqs[r].seen =
                   <<[userId |-> SubjectOf[t], role |-> Jwts[t].role]>>
              /\ reqs'[r].seen = reqs[r].seen
              /\ reqs'[r].user = reqs[r].seen ]_vars

\* scenario A: the token {userId: 7, role: "member"} reached the handler of a
\* read route with subject id "7"
C5_Witness ==
  \E r \in Slots :
    /\ Presents(reqs[r], "tokMember")
    /\ Ran(r, "handler")
    /\ reqs[r].seen = <<[userId |-> "7", role |-> Member]>>

\* the roles an operation declares
Declared(rt) ==
  {Routes[rt].stack[2].roles[i] : i \in 1..Len(Routes[rt].stack[2].roles)}

\* C6: once requireRole has run for an authenticated request, the request
\* has been answered 403 "AksesDitolak" if its role is not among the roles
\* the operation declares, and has gone on to the handler if it is; a role
\* other than member and librarian is refused on every route.
C6_FlatMembership ==
  \A r \in Slots :
    (Ran(r, "requireRole") /\ reqs[r].user # <<>>) =>
      IF reqs[r].user[1].role \in Declared(reqs[r].route)
           /\ reqs[r].user[1].role \in {Member, Librarian}
        THEN /\ ~Answered(r, 403)
             /\ reqs[r].idx = 3
        ELSE /\ reqs[r].res = <<Response(403, "AksesDitolak", MsgDenied)>>
             /\ reqs[r].state = "done"
             /\ ~Ran(r, "handler")

\* scenario B and the flat model: the member token was refused on a
\* librarian route, and an admin token on a read route
C6_Witness ==
  \E r, q \in Slots :
    /\ Presents(reqs[r], "tokMember") /\ reqs[r].route = "putBook"
    /\ Answered(r, 403)
    /\ Presents(reqs[q], "tokAdmin") /\ reqs[q].route = "getBooks"
    /\ Answered(q, 403)

\* the request in slot r carries a token that jwtAuth accepted, of role ro
ValidAs(r, ro) ==
  /\ reqs[r].user # <<>>
  /\ reqs[r].user[1].role = ro
  /\ \E t \in DOMAIN Jwts :
       /\ Presents(reqs[r], t) /\ BearerShape(reqs[r])
       /\ Jwts[t].key = JWT_SECRET /\ Jwts[t].role = ro

\* C7: the handlers of POST /api/books, PUT /api/books/:id and
\* DELETE /api/books/:id run only for a valid librarian token and a valid
\* member token gets 403 there; on the read routes a valid member or
\* librarian token goes on to the handler.
C7_MutationsLibrarianOnly ==
  \A r \in Slots :
    IF Routes[reqs[r].route].method \in {"POST", "PUT", "DELETE"}
      THEN /\ Ran(r, "handler") => ValidAs(r, Librarian)
           /\ (Ran(r, "requireRole") /\ ValidAs(r, Member)) =>
                /\ reqs[r].res = <<Response(403, "AksesDitolak", MsgDenied)>>
                /\ ~Ran(r, "handler")
      ELSE (Ran(r, "requireRole")
              /\ (ValidAs(r, Member) \/ ValidAs(r, Librarian))) =>
             /\ ~Answered(r, 403)
             /\ reqs[r].idx = 3

\* a librarian created a book while a member was refused the delete
C7_Witness ==
  \E r, q \in Slots :
    /\ reqs[r].route = "postBook" /\ ValidAs(r, Librarian)
    /\ Answered(r, 201)
    /\ reqs[q].route = "deleteBook" /\ ValidAs(q, Member)
    /\ Answered(q, 403)

\* jwt.verify threw for the request in slot r: its header had the Bearer
\* shape and jwtAuth refused it
VerifyFailed(r) ==
  /\ BearerShape(reqs[r])
  /\ Ran(r, "jwtAuth")
  /\ reqs[r].state = "done"
  /\ reqs[r].user = <<>>

\* C8: two requests whose token verification failed, for whatever cause,
\* have received the same response: same status, error and message.
C8_SameFailureResponse ==
  \A r, q \in Slots :
    (VerifyFailed(r) /\ VerifyFailed(q)) => reqs[r].res = reqs[q].res

\* an expired token and a token that is forged or malformed were refused
C8_Witness ==
  \E r, q \in Slots :
    /\ VerifyFailed(r) /\ VerifyFailed(q)
    /\ Presents(reqs[r], "tokExpiring")
    /\ Jwts["tokExpiring"].key = JWT_SECRET
    /\ \/ Presents(reqs[q], "tokForged") /\ Jwts["tokForged"].key # JWT_SECRET
       \/ Presents(reqs[q], "x")

\* C9: a correctly signed, unexpired token whose userId or role claim is
\* missing is refused by jwtAuth with 401 and gets no identity.
C9_MalformedClaimsAre401 ==
  \A r \in Slots : \A t \in DOMAIN Jwts :
    ( /\ Ran(r, "jwtAuth")
      /\ BearerShape(reqs[r])
      /\ Presents(reqs[r], t)
      /\ Jwts[t].key = JWT_SECRET
      /\ Jwts[t].exp.t = "undefined"
      /\ Jwts[t].userId.t = "undefined" \/ Jwts[t].role.t = "undefined" )
    => Unauthenticated(reqs[r])

\* the token in the header of request rq cannot have been expired at any
\* time up to now
Unexpiring(rq) ==
  \A t \in DOMAIN Jwts :
    Presents(rq, t) =>
      ~(Jwts[t].exp.t = "number" /\ Jwts[t].exp.n <= now)

\* C10: two requests that presented the same unexpired token to jwtAuth
\* carry the same identity, and two requests whose role check had the same
\* role and the same allowed roles had the same outcome.
C10_Deterministic ==
  \A r, q \in Slots :
    /\ ( /\ reqs[r].headers = reqs[q].headers
         /\ Ran(r, "jwtAuth") /\ Ran(q, "jwtAuth")
         /\ Unexpiring(reqs[r]) )
       => reqs[r].user = reqs[q].user
    /\ ( /\ Ran(r, "requireRole") /\ Ran(q, "requireRole")
         /\ reqs[r].user # <<>> /\ reqs[q].user # <<>>
         /\ reqs[r].user[1].role = reqs[q].user[1].role
         /\ Routes[reqs[r].route].stack[2].roles
              = Routes[reqs[q].route].stack[2].roles )
       => (Answered(r, 403) <=> Answered(q, 403))

\* the same member token was verified in two requests, both were given the
\* same identity, and both role checks against <<librarian>> were denied
C10_Witness ==
  \E r, q \in Slots :
    /\ r # q
    /\ reqs[r].headers = reqs[q].headers
    /\ Presents(reqs[r], "tokMember")
    /\ reqs[r].user # <<>> /\ reqs[q].user = reqs[r].user
    /\ reqs[r].route = "postBook" /\ reqs[q].route = "deleteBook"
    /\ Answered(r, 403) /\ Answered(q, 403)

\* the identity of request rq is the one its own token stands for
OwnIdentity(rq) ==
  \E t \in DOMAIN Jwts :
    /\ Presents(rq, t)
    /\ Jwts[t].key = JWT_SECRET
    /\ rq.user = <<[userId |-> SubjectOf[t], role |-> Jwts[t].role]>>

\* C11: under every interleaving, the identity a request carries, and the
\* one its handler saw, is the identity of its own token; a step of one
\* request leaves every other request as it was; JWT_SECRET never changes.
C11_RequestIsolation ==
  [][ /\ JWT_SECRET' = JWT_SECRET
      /\ \A r \in Slots :
           /\ reqs'[r].user # <<>> => OwnIdentity(reqs'[r])
           /\ Ran(r, "handler") =>
                /\ reqs'[r].seen = reqs'[r].user
                /\ reqs'[r].user = reqs[r].user
           /\ \A q \in Slots \ {r} :
                reqs'[r] # reqs[r] => reqs'[q] = reqs[q] ]_vars

\* a librarian's handler is suspended on supabase while a member's request
\* has been authenticated and suspended too, each with its own identity
C11_Witness ==
  \E r, q \in Slots :
    /\ reqs[r].state = "awaiting" /\ reqs[q].state = "awaiting"
    /\ reqs[r].user # <<>> /\ reqs[r].user[1].role = Librarian
    /\ reqs[q].user # <<>> /\ reqs[q].user[1].role = Member
    /\ OwnIdentity(reqs[r]) /\ OwnIdentity(reqs[q])

\* the synchronous part of a request: Express runs each middleware as soon
\* as the one before has called next()
RunChain == \E r \in Slots : JwtAuth(r) \/ RequireRole(r) \/ HandlerStart(r)

\* the promise of a supabase call settles and the event loop runs the
\* continuation of the handler that awaits it
Settle == \E r \in Slots : HandlerResume(r)

FairSpec == Spec /\ WF_vars(RunChain) /\ WF_vars(Settle)

\* the request in slot r is over with exactly one response, of one of the
\* terminal kinds: 401 from jwtAuth, 403 from requireRole, or the handler's
\* own answer (500 when the persistence call failed)
Terminal(r) ==
  /\ reqs[r].state = "done"
  /\ Len(reqs[r].res) = 1
  /\ \/ reqs[r].res[1].status = 401 /\ reqs[r].trace = <<"jwtAuth">>
     \/ reqs[r].res[1].status = 403
          /\ reqs[r].trace = <<"jwtAuth", "requireRole">>
     \/ reqs[r].res[1].status \in {200, 201, 400, 404, 500}
          /\ reqs[r].trace = <<"jwtAuth", "requireRole", "handler">>

\* C12: from some moment on every request received is, and stays, in one
\* terminal state with exactly one response; a request never has two
\* responses, never runs a stage twice or goes back to an earlier stage, and
\* once terminal it does not change.
C12_ExactlyOneTerminal ==
  /\ <>[](\A r \in Slots : reqs[r].state = "idle" \/ Terminal(r))
  /\ [][ \A r \in Slots :
           /\ Len(reqs'[r].res) <= 1
           /\ reqs'[r].state = "done" => Terminal(r)'
           /\ reqs[r].state # "idle" =>
                /\ reqs'[r].idx >= reqs[r].idx
                /\ Len(reqs'[r].trace) >= Len(reqs[r].trace)
                /\ Len(reqs'[r].trace) > Len(reqs[r].trace) =>
                     reqs'[r].trace[Len(reqs'[r].trace)]
                       = Routes[reqs[r].route].stack[reqs[r].idx].mw
           /\ reqs[r].state = "done" => reqs'[r] = reqs[r] ]_vars

\* a persistence failure inside a handler ended in a 500, next to a request
\* that ended in 401
C12_Witness ==
  \E r, q \in Slots :
    /\ Terminal(r) /\ reqs[r].res[1].status = 500
    /\ Terminal(q) /\ reqs[q].res[1].status = 401

\* C13: requireRole, run for a request that has no req.user, answers 403
\* "AksesDitolak" and does not call next, whatever roles the route allows,
\* the routes that allow every role included.
C13_FailsClosed ==
  \A r \in Slots :
    (Ran(r, "requireRole") /\ reqs[r].user = <<>>) =>
      /\ reqs[r].res = <<Response(403, "AksesDitolak", MsgDenied)>>
      /\ reqs[r].state = "done"
      /\ reqs[r].idx = 2
      /\ reqs[r].trace = <<"requireRole">>

\* a request carrying a librarian token, but never authenticated, was
\* refused on a route open to member and librarian and on a librarian route
C13_Witness ==
  \E r, q \in Slots :
    /\ reqs[r].route = "getBooks" /\ reqs[q].route = "postBook"
    /\ Presents(reqs[r], "tokLibrarian") /\ BearerShape(reqs[r])
    /\ reqs[r].user = <<>> /\ reqs[q].user = <<>>
    /\ reqs[r].trace = <<"requireRole">> /\ reqs[q].trace = <<"requireRole">>
    /\ Answered(r, 403) /\ Answered(q, 403)

\* the three bodies the authentication and authorization stages send
AuthBodies ==
  { [status |-> 401, error |-> "TidakTerautentikasi",
     message |->
       "Token Bearer tidak ditemukan. Tambahkan Authorization: Bearer <token>."],
    [status |-> 401, error |-> "TidakTerautentikasi",
     message |-> "Token tidak valid atau sudah kedaluwarsa."],
    [status |-> 403, error |-> "AksesDitolak",
     message |-> "Anda tidak memiliki izin untuk mengakses endpoint ini."] }

\* C14: every 401 or 403 response is one of three fixed {error, message}
\* bodies, whatever token was sent and whatever jwt.verify threw; 401 goes
\* with "TidakTerautentikasi" and 403 with "AksesDitolak".
C14_FixedErrorBodies ==
  \A r \in Slots : \A i \in 1..Len(reqs[r].res) :
    LET b == reqs[r].res[i] IN
    /\ b.status \in {401, 403} => b \in AuthBodies
    /\ b.error = "TidakTerautentikasi" <=> b.status = 401
    /\ b.error = "AksesDitolak" <=> b.status = 403
    /\ (b.status = 401 /\ BearerShape(reqs[r])) =>
         b.message = "Token tidak valid atau sudah kedaluwarsa."
    /\ (b.status = 401 /\ ~BearerShape(reqs[r])) =>
         b.message =
           "Token Bearer tidak ditemukan. Tambahkan Authorization: Bearer <token>."

\* an admin token was refused with the access-denied body and a token under
\* a foreign secret with the invalid-or-expired body
C14_Witness ==
  \E r, q \in Slots : \E t \in DOMAIN Jwts :
    /\ Presents(reqs[r], "tokAdmin") /\ Answered(r, 403)
    /\ Presents(reqs[q], t) /\ BearerShape(reqs[q])
    /\ Jwts[t].key # JWT_SECRET
    /\ Answered(q, 401)

\* C15: the books table changes only in the step in which the insert,
\* update or delete of a POST, PUT or DELETE request takes effect, and that
\* request passed jwtAuth and requireRole with a valid librarian token, was
\* never answered 401 or 403 and, for POST and PUT, carried a title, genres,
\* authors and year that pass the field check; a step of any other request
\* leaves the table as it is.
C15_OnlyLibrarianWrites ==
  [][ books' # books =>
        \E r \in Slots :
          /\ reqs[r].state = "awaiting" /\ reqs'[r].state = "done"
          /\ Routes[reqs[r].route].method \in {"POST", "PUT", "DELETE"}
          /\ reqs[r].trace = <<"jwtAuth", "requireRole", "handler">>
          /\ ValidAs(r, Librarian)
          /\ ~(\E i \in 1..Len(reqs'[r].res) :
                 reqs'[r].res[i].status \in {401, 403})
          /\ Routes[reqs[r].route].method \in {"POST", "PUT"} =>
               /\ reqs[r].body.title.t = "string"
                    /\ reqs[r].body.title.s # ""
               /\ reqs[r].body.genres.t = "string"
                    /\ reqs[r].body.genres.s # ""
               /\ reqs[r].body.authors.t = "string"
                    /\ reqs[r].body.authors.s # ""
               /\ reqs[r].body.year.t = "number"
                    /\ reqs[r].body.year.n # 0 ]_vars

\* a librarian's PUT changed the title of book 1 while a member's DELETE of
\* the same book was refused and the book is still there
C15_Witness ==
  \E r, q \in Slots :
    /\ reqs[r].route = "putBook" /\ ValidAs(r, Librarian)
    /\ Answered(r, 200)
    /\ books = {[id |-> 1, title |-> "B"]}
    /\ reqs[q].route = "deleteBook" /\ ValidAs(q, Member)
    /\ Answered(q, 403)

====
